---------------------------- MODULE Spec2Model ----------------------------
(***************************************************************************)
(* Model of the S32K FlexCAN media-layer driver of libuavcan v1            *)
(* (src/src/s32k_libuavcan.cpp): the interrupt-fed reception queues, the   *)
(* discard counters, the FlexCAN registers the driver reads and writes,    *)
(* and the public operations of S32K_InterfaceGroup and                    *)
(* S32K_InterfaceManager.                                                  *)
(*                                                                         *)
(* Registers are modelled at field level: a message buffer is the record   *)
(* of its control/status word fields (code, dlc), its id word and its      *)
(* payload words; a register of flag bits is the set of the bits that are  *)
(* set.  Values that the hardware produces (status flags, the outcome of a *)
(* timed poll, received frames) are inputs of the step that reads them.    *)
(***************************************************************************)
EXTENDS Integers, Sequences, FiniteSets, TLC

(***************************************************************************)
(* Program constants                                                       *)
(***************************************************************************)
\* TARGET_S32K_CANFD_COUNT of the S32K146 build (two CAN-FD instances).
CANFD_Count == 2

\* Capacity of the reception queue.  The source sets the tunable to 40; the
\* model scales it down, every statement below is parametric in it.
Frame_Capacity == 2

\* Number of filters (reception message buffers) of one instance.
Filter_Count == 5

\* MB_Size_Words, MB_Data_Offset: the words of a message buffer, and the
\* index of its first payload word.
MB_Size_Words == 18
MB_Data_Offset == 2

\* CAN::TypeFD::MaxFrameSizeBytes: the size of frame.data.
MaxFrameSizeBytes == 64

\* MCR.MAXMB: the last message buffer the hardware takes part with.
MAXMB == 6

\* Ticks of the timeout timer a timed poll waits for at most.
S32K_cycles_timeout == 16777215

\* Frames moved by one write / one read call (the header's array lengths).
TxFramesLen == 1
RxFramesLen == 1

(***************************************************************************)
(* Bounds of the model                                                     *)
(***************************************************************************)
\* Frames the bus delivers in one behaviour of SpecRx.
MaxRx == 4

\* Frames the bus delivers in one behaviour of Spec.
MaxRxSpec == 2

\* API calls (start, stop, write, read, reconfigureFilters) in one behaviour
\* of Spec.
MaxCalls == 2

\* API calls (start, stop, read) in one behaviour of SpecRx.
MaxCallsRx == 3

\* Frames the bus delivers and API calls (start, stop) in one behaviour of
\* SpecLife.
MaxRxLife == 1
MaxCallsLife == 3

\* Frames the bus delivers and API calls (start, read, select) in one
\* behaviour of SpecSel, and the longest timeout passed to select.
MaxRxSel == 2
MaxCallsSel == 3
MaxTimeout == 2

\* Frames the bus delivers and API calls (start, read) in one behaviour of
\* SpecIsr.
MaxRxIsr == 3
MaxCallsIsr == 2

\* Frames the bus delivers and API calls (start, read) in one behaviour of
\* SpecPreempt.
MaxRxPreempt == 3
MaxCallsPreempt == 3

\* Frames the bus delivers and API calls (start, write) in one behaviour of
\* SpecTx.
MaxRxTx == 1
MaxCallsTx == 4

(***************************************************************************)
(* Value sets                                                              *)
(***************************************************************************)
Instances == 0 .. (CANFD_Count - 1)

\* Message buffers that the driver addresses: 0 and 1 transmit, 2..6 receive,
\* 7 is reached by start/reconfigure when one filter too many is supplied.
MessageBuffers == 0 .. 7
TxMessageBuffers == {0, 1}
RxMessageBuffers == 2 .. 6

\* CODE field values of a control/status word.
CODE_INACTIVE == 0
CODE_RX_EMPTY == 4
CODE_TX_DATA == 12
\* The code the hardware leaves in a message buffer whose frame it has sent.
CODE_TX_INACTIVE == 8

ZeroMB == [code |-> CODE_INACTIVE, dlc |-> 0, id |-> 0, data |-> 0]

\* Filter configurations a caller supplies: set v of n filters.
FilterLens == {1, 2, Filter_Count + 1}
MkFilters(n, v) == [j \in 1 .. n |-> [id |-> 10 * v + j, mask |-> 100 * v + j]]
FilterConfigs == {MkFilters(n, 1) : n \in FilterLens}

\* Values of the interface index argument of read and write.
IndexArgs == 0 .. (CANFD_Count + 1)

\* Values the caller's out_frames_written holds before a write.
OutArgs == {7}

\* What a call leaves behind for its caller: the operation, the result it
\* returned and the value of its frame count output argument.
Returned(op, Status, out) == [op |-> op, status |-> Status, out |-> out]

NoCall == Returned("none", "none", 0)

VARIABLES
    g_frame_ISRbuffer,          \* per instance: the reception queue
    g_discarded_frames_count,   \* per instance: frames dropped, queue full
    IFLAG1,                     \* per instance: message buffers with a pending flag
    IMASK1,                     \* per instance: message buffers whose flag interrupts
    RAMn,                       \* per instance: the message buffers
    RXIMR,                      \* per instance: the reception masks
    MCR,                        \* per instance: request bits the driver has set
    PCC_CGC,                    \* per instance: FlexCAN clock gate
    clock,                      \* SCG / LPIT bring-up: PLL selected, timer enabled
    out_group,                  \* the caller's group handle: TRUE when non-null
    ret,                        \* the last completed API call and what it returned
    pushed,                     \* per instance: every frame the handler queued
    returned,                   \* per instance: every frame read handed out
    rxcount,                    \* frames delivered by the bus so far
    calls,                      \* API calls made so far
    wild,                       \* an access went outside the configured instances
    pc,                         \* the foreground: "idle", or the wait a call spins in
    codec,                      \* a frame on its way through the mailbox word layout
    stamp,                      \* a reception timestamp on its way through resolve_Timestamp
    poll                        \* a timed block: the polled flag, the timer, the loop

vars == <<g_frame_ISRbuffer, g_discarded_frames_count, IFLAG1, IMASK1, RAMn, RXIMR,
          MCR, PCC_CGC, clock, out_group, ret, pushed, returned, rxcount, calls, wild,
          pc, codec, stamp, poll>>

\* Every hardware register of the model.
hardware == <<IFLAG1, IMASK1, RAMn, RXIMR, MCR, PCC_CGC, clock>>

\* The queues, the registers and the call state of the driver.
driver == <<g_frame_ISRbuffer, g_discarded_frames_count, IFLAG1, IMASK1, RAMn, RXIMR,
            MCR, PCC_CGC, clock, out_group, ret, pushed, returned, rxcount, calls, wild,
            pc>>

\* The variables of the codec and of the timestamp computation; the driver's
\* operations below work on the registers and leave them alone.
computations == <<codec, stamp, poll>>

\* The foreground is not inside a call.
Idle == [op |-> "idle", wait |-> "none", instance |-> 0]

\* No frame and no timestamp is being converted.
NoCodec == [step |-> "none"]
NoStamp == [step |-> "none"]
NoPoll == [step |-> "none"]

\* The driver after construction: empty queues, registers at their reset
\* values, no group handed out.
Init_Driver ==
    /\ g_frame_ISRbuffer = [i \in Instances |-> <<>>]
    /\ g_discarded_frames_count = [i \in Instances |-> 0]
    /\ IFLAG1 = [i \in Instances |-> {}]
    /\ IMASK1 = [i \in Instances |-> {}]
    /\ RAMn = [i \in Instances |-> [m \in MessageBuffers |-> ZeroMB]]
    /\ RXIMR = [i \in Instances |-> [m \in MessageBuffers |-> 0]]
    /\ MCR = [i \in Instances |-> {"MDIS"}]
    /\ PCC_CGC = [i \in Instances |-> FALSE]
    /\ clock = [spll |-> FALSE, lpit |-> FALSE]
    /\ out_group = FALSE
    /\ ret = NoCall
    /\ pushed = [i \in Instances |-> <<>>]
    /\ returned = [i \in Instances |-> <<>>]
    /\ rxcount = 0
    /\ calls = 0
    /\ wild = FALSE
    /\ pc = Idle

Init ==
    /\ Init_Driver
    /\ codec = NoCodec
    /\ stamp = NoStamp
    /\ poll = NoPoll

(***************************************************************************)
(* libuavcan::isSuccess: the positive result codes.                        *)
(***************************************************************************)
isSuccess(Status) == Status \in {"Success", "SuccessNothing", "SuccessTimeout"}

(***************************************************************************)
(* The timed polls.  flagReached is what the hardware does: TRUE when the  *)
(* polled flag reaches its target before the deadline.                     *)
(***************************************************************************)
flagPollTimeout_Set(flagReached) == IF flagReached THEN "Success" ELSE "Failure"

flagPollTimeout_Clear(flagReached) == IF flagReached THEN "Success" ELSE "Failure"

(***************************************************************************)
(* IFLAG1 is write-one-to-clear: IFLAG1 |= bits reads the register and     *)
(* writes back every set flag together with bits, which clears them all.   *)
(***************************************************************************)
IFLAG1_OrAssign(flags, bits) == flags \ (flags \cup bits)

(***************************************************************************)
(* The bus delivers a frame into reception message buffer m of instance i. *)
(* The module must be enabled and out of freeze mode and the buffer must   *)
(* be set up for reception.  The hardware stores the length code and the   *)
(* payload (the payload is numbered by arrival, so that frames can be told *)
(* apart) and raises the buffer's flag; the id is the one the filter       *)
(* admits.  The driver never reads the CODE field back, so its change to   *)
(* "full" is not recorded.                                                 *)
(***************************************************************************)
BusReceive(i, m, dlc) ==
    /\ "MDIS" \notin MCR[i]
    /\ ~({"HALT", "FRZ"} \subseteq MCR[i])
    /\ RAMn[i][m].code = CODE_RX_EMPTY
    /\ RAMn' = [RAMn EXCEPT ![i][m] = [@ EXCEPT !.dlc = dlc, !.data = rxcount + 1]]
    /\ IFLAG1' = [IFLAG1 EXCEPT ![i] = @ \cup {m}]
    /\ rxcount' = rxcount + 1
    /\ UNCHANGED <<g_frame_ISRbuffer, g_discarded_frames_count, IMASK1, RXIMR, MCR,
                   PCC_CGC, clock, out_group, ret, pushed, returned, calls, wild, pc>>
    /\ UNCHANGED computations

(***************************************************************************)
(* S32K_libuavcan_ISR_handler                                              *)
(***************************************************************************)
\* The switch on (IFLAG1 & 124): a case matches only when exactly one flag of
\* the reception message buffers is set; otherwise MB_index stays 0.
MB_index(flags) ==
    LET rx == flags \cap RxMessageBuffers
    IN  IF Cardinality(rx) = 1 THEN CHOOSE m \in rx : TRUE ELSE 0

\* The frame the handler builds from a message buffer.
FrameISR(mb) == [id |-> mb.id, dlc |-> mb.dlc, data |-> mb.data]

\* The admission test of the handler.
UnderCapacity(size) == size <= Frame_Capacity

S32K_libuavcan_ISR_handler(instance) ==
    /\ IFLAG1[instance] \cap IMASK1[instance] # {}
    /\ LET mbi == MB_index(IFLAG1[instance])
       IN  IF mbi # 0
           THEN /\ IF UnderCapacity(Len(g_frame_ISRbuffer[instance]))
                   THEN /\ g_frame_ISRbuffer' =
                             [g_frame_ISRbuffer EXCEPT
                                 ![instance] = Append(@, FrameISR(RAMn[instance][mbi]))]
                        /\ pushed' = [pushed EXCEPT
                                 ![instance] = Append(@, FrameISR(RAMn[instance][mbi]))]
                        /\ UNCHANGED g_discarded_frames_count
                   ELSE /\ g_discarded_frames_count' =
                             [g_discarded_frames_count EXCEPT ![instance] = @ + 1]
                        /\ UNCHANGED <<g_frame_ISRbuffer, pushed>>
                /\ IFLAG1' = [IFLAG1 EXCEPT ![instance] = IFLAG1_OrAssign(@, {mbi})]
           ELSE UNCHANGED <<g_frame_ISRbuffer, pushed, g_discarded_frames_count, IFLAG1>>
    /\ UNCHANGED <<IMASK1, RAMn, RXIMR, MCR, PCC_CGC, clock, out_group, ret, returned,
                   rxcount, calls, wild, pc>>
    /\ UNCHANGED computations

(***************************************************************************)
(* The word layout of a message buffer: messageBuffer_Transmit writes it,  *)
(* the handler reads it.  A byte is a number below 256; a 32-bit word is   *)
(* the tuple of its four bytes, most significant first.  The processor is  *)
(* little-endian: the byte at the lowest address is the least significant. *)
(***************************************************************************)
\* CAN::Frame::dlcToLength: the payload length a length code stands for.
dlcToLength(dlc) ==
    IF dlc <= 8 THEN dlc
    ELSE CASE dlc = 9 -> 12 [] dlc = 10 -> 16 [] dlc = 11 -> 20 [] dlc = 12 -> 24
           [] dlc = 13 -> 32 [] dlc = 14 -> 48 [] OTHER -> 64

\* CAN_WMBn_ID_ID_MASK: the 29 bits of an extended id.
ID_Mask(id) == id % 536870912

\* REV_BYTES_32: the word with its bytes in reverse order.
REV_BYTES_32(word) == <<word[4], word[3], word[2], word[1]>>

\* The 32-bit word a little-endian load reads at word index i (from 0) of a
\* byte array.
LoadWord(bytes, i) ==
    <<bytes[4 * i + 4], bytes[4 * i + 3], bytes[4 * i + 2], bytes[4 * i + 1]>>

\* The bytes a little-endian store of the words leaves in memory.
StoreWords(words) ==
    [k \in 1 .. 4 * Len(words) |-> words[((k - 1) \div 4) + 1][4 - ((k - 1) % 4)]]

\* A transmission that moves whole words only and drops a trailing partial word.
Transmit_WholeWords(payloadLength) == payloadLength \div 4

\* Words messageBuffer_Transmit moves: (payloadLength >> 2) + min(1, payloadLength & 3).
Transmit_Words(payloadLength) ==
    (payloadLength \div 4) + (IF payloadLength % 4 >= 1 THEN 1 ELSE payloadLength % 4)

\* Words the handler moves: the same expression on the received length.
ISR_Words(payloadLength_ISR) ==
    (payloadLength_ISR \div 4)
        + (IF payloadLength_ISR % 4 >= 1 THEN 1 ELSE payloadLength_ISR % 4)

\* The payload words of a message buffer, and a zeroed word.
MB_PayloadWords == MB_Size_Words - MB_Data_Offset
ZeroWord == <<0, 0, 0, 0>>

\* messageBuffer_Transmit: the message buffer it leaves for a frame, starting
\* from a zeroed one.  The payload words are loaded from frame.data and
\* written byte-reversed (written: how many); the id word holds the masked id;
\* word 0 holds EDL, BRS, CODE 12, IDE and the DLC.
Transmit_Layout(frame) ==
    [edl |-> 1, brs |-> 1, esi |-> 0, code |-> CODE_TX_DATA, srr |-> 0, ide |-> 1,
     rtr |-> 0, dlc |-> frame.dlc, timestamp |-> 0,
     id |-> ID_Mask(frame.id),
     written |-> Transmit_Words(dlcToLength(frame.dlc)),
     words |-> [i \in 1 .. MB_PayloadWords |->
                   IF i <= Transmit_Words(dlcToLength(frame.dlc))
                   THEN REV_BYTES_32(LoadWord(frame.data, i - 1)) ELSE ZeroWord]]

\* The handler's harvest of a message buffer: data_ISR_word.
ISR_Harvest(mb) ==
    [i \in 1 .. ISR_Words(dlcToLength(mb.dlc)) |-> REV_BYTES_32(mb.words[i])]

\* CAN::Frame's constructor: the payload is the first dlcToLength(dlc) bytes
\* at the data pointer, the rest of frame.data is zero.
Frame(id, bytes, dlc) ==
    [id |-> id, dlc |-> dlc,
     data |-> [k \in 1 .. MaxFrameSizeBytes |->
                  IF k <= dlcToLength(dlc) THEN bytes[k] ELSE 0]]

\* The frame the handler builds: FrameISR(id_ISR, data_ISR_word, dlc_ISR, ...).
ISR_Frame(mb) == Frame(ID_Mask(mb.id), StoreWords(ISR_Harvest(mb)), mb.dlc)

\* The payload of a frame: getDataLength() bytes of frame.data.
Payload(frame) == SubSeq(frame.data, 1, dlcToLength(frame.dlc))

(***************************************************************************)
(* The register accesses of one entry of S32K_libuavcan_ISR_handler, in    *)
(* program order.  The registers are volatile: every access in the code is *)
(* an access on the bus.                                                   *)
(***************************************************************************)
Access(op, reg) == [op |-> op, reg |-> reg]

\* The harvest of message buffer mb: control/status word (DLC), id word, the
\* payload words, the control/status word again (time stamp), then
\* resolve_Timestamp: TIMER and the two timer channels.
ISR_HarvestAccesses(mb) ==
    <<Access("read", "CS"), Access("read", "ID")>>
    \o [k \in 1 .. ISR_Words(dlcToLength(mb.dlc)) |-> Access("read", "DATA")]
    \o <<Access("read", "CS"), Access("read", "TIMER"),
         Access("read", "LPIT_CVAL1"), Access("read", "LPIT_CVAL0")>>

\* messageBuffer_Transmit with the control/status word written first.
Transmit_AccessesCodeFirst(frame) ==
    <<Access("write", "CS")>>
    \o [k \in 1 .. Transmit_Words(dlcToLength(frame.dlc)) |-> Access("write", "DATA")]
    \o <<Access("write", "ID"), Access("read", "IFLAG1"),
         Access("read", "IFLAG1"), Access("write", "IFLAG1")>>

\* messageBuffer_Transmit: the payload words, the id word, the control/status
\* word with the transmit code, the poll of the completion flag, its clear.
Transmit_Accesses(frame) ==
    [k \in 1 .. Transmit_Words(dlcToLength(frame.dlc)) |-> Access("write", "DATA")]
    \o <<Access("write", "ID"), Access("write", "CS"), Access("read", "IFLAG1"),
         Access("read", "IFLAG1"), Access("write", "IFLAG1")>>

ISR_Accesses(instance) ==
    LET mbi == MB_index(IFLAG1[instance])
    IN  <<Access("read", "IFLAG1")>>
        \o (IF mbi # 0
            THEN (IF UnderCapacity(Len(g_frame_ISRbuffer[instance]))
                  THEN ISR_HarvestAccesses(RAMn[instance][mbi])
                  ELSE <<>>)
                 \o <<Access("read", "IFLAG1"), Access("write", "IFLAG1")>>
            ELSE <<>>)

(***************************************************************************)
(* S32K_InterfaceGroup::resolve_Timestamp, in the widths of the code.  A   *)
(* std::uint64_t is the tuple of its four 16-bit digits, least significant *)
(* first; a 32-bit timer register is the tuple of its two 16-bit halves,   *)
(* low half first; the 16-bit counters are numbers below 65536.            *)
(***************************************************************************)
\* The base of the digits.
Digit == 65536

\* The divisor of line 220: timer ticks in a microsecond at 80 MHz.
TicksPerMicrosecond == 80

\* 0xFFFFFFFF - CVAL of a 32-bit down-counter.
Inverted32(CVAL) == <<(Digit - 1) - CVAL[1], (Digit - 1) - CVAL[2]>>

\* target_source: ((0xFFFFFFFF - TMR[1].CVAL) << 32) | (0xFFFFFFFF - TMR[0].CVAL).
target_source(CVAL1, CVAL0) == Inverted32(CVAL0) \o Inverted32(CVAL1)

\* A delta that is taken only when the current counter is ahead of the capture.
source_delta_Ahead(FlexCAN_timestamp, frame_timestamp) ==
    IF FlexCAN_timestamp > frame_timestamp THEN FlexCAN_timestamp - frame_timestamp ELSE 0

\* source_delta: the distance of the two counter values.
source_delta(FlexCAN_timestamp, frame_timestamp) ==
    IF FlexCAN_timestamp > frame_timestamp
    THEN FlexCAN_timestamp - frame_timestamp
    ELSE frame_timestamp - FlexCAN_timestamp

\* a - d on std::uint64_t, d below 65536: digit by digit with borrow; a
\* borrow out of the top digit is lost (the difference wraps).
Sub64(a, d) ==
    LET x1 == a[1] - d
        b1 == IF x1 < 0 THEN 1 ELSE 0
        x2 == a[2] - b1
        b2 == IF x2 < 0 THEN 1 ELSE 0
        x3 == a[3] - b2
        b3 == IF x3 < 0 THEN 1 ELSE 0
        x4 == a[4] - b3
        b4 == IF x4 < 0 THEN 1 ELSE 0
    IN  <<x1 + b1 * Digit, x2 + b2 * Digit, x3 + b3 * Digit, x4 + b4 * Digit>>

\* a / n on std::uint64_t, n below 65536: long division from the top digit.
Div64(a, n) ==
    LET c4 == a[4]
        c3 == (c4 % n) * Digit + a[3]
        c2 == (c3 % n) * Digit + a[2]
        c1 == (c2 % n) * Digit + a[1]
    IN  <<c1 \div n, c2 \div n, c3 \div n, c4 \div n>>

\* resolved_timestamp_ISR = (target_source - source_delta) / 80, the
\* microseconds handed to Monotonic::fromMicrosecond.
resolve_Timestamp(frame_timestamp, TIMER, CVAL1, CVAL0) ==
    Div64(Sub64(target_source(CVAL1, CVAL0), source_delta(TIMER, frame_timestamp)),
          TicksPerMicrosecond)

(***************************************************************************)
(* S32K_InterfaceGroup::write                                              *)
(***************************************************************************)
\* The frame a caller hands to write.
TxFrame == [id |-> 5, dlc |-> 8, data |-> 99]

\* messageBuffer_Transmit: the message buffer after the payload, the id word
\* and the control/status word have been written.
TransmitMB(frame) == [code |-> CODE_TX_DATA, dlc |-> frame.dlc, id |-> frame.id,
                      data |-> frame.data]

\* The message buffer once the hardware has sent its frame: the completion
\* flag messageBuffer_Transmit polls for is raised and the buffer is free again.
TransmittedMB(frame) == [TransmitMB(frame) EXCEPT !.code = CODE_TX_INACTIVE]

\* The message buffer when messageBuffer_Transmit returns.
Transmit_Result(frame, sent) == IF sent THEN TransmittedMB(frame) ELSE TransmitMB(frame)

\* ESR2 as the hardware derives it from the message buffers: a buffer is
\* inactive (free for a transmission) when nothing was set up in it or when
\* its transmission is over; IMB tells whether there is one, LPTM is the
\* lowest-numbered one.
ESR2_Inactive(i) ==
    {m \in 0 .. MAXMB : RAMn[i][m].code \in {CODE_INACTIVE, CODE_TX_INACTIVE}}

ESR2_IMB(i) == ESR2_Inactive(i) # {}

ESR2_LPTM(i) ==
    IF ESR2_IMB(i)
    THEN CHOOSE m \in ESR2_Inactive(i) : \A k \in ESR2_Inactive(i) : m <= k
    ELSE 0

\* The input validation of write: the result it is meant to select.
write_Validate(interface_index, frames_len) ==
    IF (frames_len > TxFramesLen) \/ (interface_index > CANFD_Count)
    THEN "BadArgument" ELSE "BufferFull"

\* A write that reports its frame as written whatever the transmission returned.
write_FramesWrittenAlways(Status) == TxFramesLen

\* What write assigns to out_frames_written after a transmission.
write_FramesWritten(Status) == IF isSuccess(Status) THEN TxFramesLen ELSE 0

\* esr2_ready: ESR2 shows IMB and VPS; mb_index: ESR2.LPTM; sent: the
\* completion flag of mb_index is raised before the poll's deadline.
write(interface_index, frames_len, out_before, esr2_ready, mb_index, sent) ==
    /\ pc = Idle
    /\ out_group
    /\ calls' = calls + 1
    /\ LET Status0 == write_Validate(interface_index, frames_len)
           iface == interface_index - 1
           Status1 == IF esr2_ready THEN flagPollTimeout_Set(sent) ELSE Status0
           out == IF esr2_ready THEN write_FramesWritten(Status1) ELSE out_before
       IN  /\ ret' = Returned("write", Status1, out)
           /\ IF iface \in Instances
              THEN /\ UNCHANGED wild
                   /\ IF esr2_ready
                      THEN /\ RAMn' = [RAMn EXCEPT ![iface][mb_index] =
                                          Transmit_Result(TxFrame, sent)]
                           /\ IFLAG1' = [IFLAG1 EXCEPT ![iface] =
                                 IFLAG1_OrAssign(IF sent THEN @ \cup {mb_index} ELSE @,
                                                 {mb_index})]
                      ELSE UNCHANGED <<RAMn, IFLAG1>>
              ELSE /\ wild' = TRUE
                   /\ UNCHANGED <<RAMn, IFLAG1>>
    /\ UNCHANGED <<g_frame_ISRbuffer, g_discarded_frames_count, IMASK1, RXIMR, MCR,
                   PCC_CGC, clock, out_group, pushed, returned, rxcount, pc>>
    /\ UNCHANGED computations

(***************************************************************************)
(* S32K_InterfaceGroup::read                                               *)
(***************************************************************************)
\* The input validation of read.
read_Validate(interface_index) ==
    IF interface_index > CANFD_Count THEN "BadArgument" ELSE "SuccessNothing"

\* A read that hands out the newest frame instead of the oldest.
read_Back(queue) == queue[Len(queue)]

\* The element read takes from a queue, and what it leaves.
read_Front(queue) == Head(queue)
read_PopFront(queue) == Tail(queue)

\* wild_nonempty: what empty() answers when the index selects no queue of
\* g_frame_ISRbuffer (interface_index 0 selects element -1).
read(interface_index, wild_nonempty) ==
    /\ pc = Idle
    /\ out_group
    /\ calls' = calls + 1
    /\ LET Status0 == read_Validate(interface_index)
           iface == interface_index - 1
       IN  IF ~isSuccess(Status0)
           THEN /\ ret' = Returned("read", Status0, 0)
                /\ UNCHANGED <<g_frame_ISRbuffer, returned, wild>>
           ELSE IF iface \in Instances
           THEN IF g_frame_ISRbuffer[iface] # <<>>
                THEN /\ ret' = Returned("read", "Success", RxFramesLen)
                     /\ g_frame_ISRbuffer' = [g_frame_ISRbuffer EXCEPT
                                                  ![iface] = read_PopFront(@)]
                     /\ returned' = [returned EXCEPT
                                         ![iface] = Append(@, read_Front(g_frame_ISRbuffer[iface]))]
                     /\ UNCHANGED wild
                ELSE /\ ret' = Returned("read", Status0, 0)
                     /\ UNCHANGED <<g_frame_ISRbuffer, returned, wild>>
           ELSE /\ wild' = TRUE
                /\ ret' = Returned("read",
                                    IF wild_nonempty THEN "Success" ELSE Status0,
                                    IF wild_nonempty THEN RxFramesLen ELSE 0)
                /\ UNCHANGED <<g_frame_ISRbuffer, returned>>
    /\ UNCHANGED <<g_discarded_frames_count, IFLAG1, IMASK1, RAMn, RXIMR, MCR,
                   PCC_CGC, clock, out_group, pushed, rxcount, pc>>
    /\ UNCHANGED computations

(***************************************************************************)
(* S32K_InterfaceGroup::select                                             *)
(***************************************************************************)
\* One pass of the for loop over the instances: TRUE when some instance has
\* a frame queued or, unless write availability is ignored, shows a free
\* transmit message buffer (ESR2: IMB and VPS).
select_Poll(ignore_write_available, esr2_ready) ==
    \E i \in Instances :
        \/ g_frame_ISRbuffer[i] # <<>>
        \/ (~ignore_write_available /\ esr2_ready[i])

\* The timed block from a reading delta of the elapsed ticks on; the timer
\* advances by one tick per pass.
RECURSIVE select_Loop(_, _, _, _)
select_Loop(delta, cycles_timeout, ignore_write_available, esr2_ready) ==
    IF delta < cycles_timeout
    THEN IF select_Poll(ignore_write_available, esr2_ready)
         THEN "Success"
         ELSE select_Loop(delta + 1, cycles_timeout, ignore_write_available, esr2_ready)
    ELSE "SuccessTimeout"

\* timeout: the microseconds of the caller's duration; esr2_ready: per
\* instance, what ESR2 shows while the call polls.
select(timeout, ignore_write_available, esr2_ready) ==
    /\ pc = Idle
    /\ out_group
    /\ calls' = calls + 1
    /\ ret' = Returned("select",
                       select_Loop(0, timeout, ignore_write_available, esr2_ready), 0)
    /\ UNCHANGED <<g_frame_ISRbuffer, g_discarded_frames_count, IFLAG1, IMASK1, RAMn,
                   RXIMR, MCR, PCC_CGC, clock, out_group, pushed, returned, rxcount,
                   wild, pc>>
    /\ UNCHANGED computations

(***************************************************************************)
(* Filter programming, shared by reconfigureFilters and startInterfaceGroup*)
(***************************************************************************)
\* The reception message buffer set up for filter f: code 4 (active and
\* empty), extended id, bit rate switch, CAN-FD; the id word holds the filter's id.
ReceptionMB(f) == [code |-> CODE_RX_EMPTY, dlc |-> 0, id |-> f.id, data |-> 0]

\* RAMn of one instance after it is zeroed and filter j (0-based) is written
\* to message buffer j + 2.
SetupRAMn(filter_config) ==
    [m \in MessageBuffers |->
        IF m >= 2 /\ m - 1 <= Len(filter_config)
        THEN ReceptionMB(filter_config[m - 1]) ELSE ZeroMB]

\* A mask setup that writes mask j to RXIMR[j], without the offset of the two
\* transmit message buffers.
SetupRXIMR_NoOffset(filter_config) ==
    [m \in MessageBuffers |->
        IF m + 1 <= Len(filter_config) THEN filter_config[m + 1].mask ELSE 0]

\* RXIMR of one instance after it is zeroed and mask j is written to RXIMR[j + 2].
SetupRXIMR(filter_config) ==
    [m \in MessageBuffers |->
        IF m >= 2 /\ m - 1 <= Len(filter_config)
        THEN filter_config[m - 1].mask ELSE 0]

\* The input validation of reconfigureFilters and of startInterfaceGroup.
Filter_Validate(filter_config_length) ==
    IF filter_config_length > Filter_Count THEN "BadArgument" ELSE "Success"

(***************************************************************************)
(* S32K_InterfaceGroup::reconfigureFilters                                 *)
(***************************************************************************)
\* What the hardware of one instance does during the call: "ok", it enters
\* freeze mode on the request and both polled flags clear in time;
\* "no_freeze", it never acknowledges the freeze request (the freeze
\* acknowledge stays clear, the module stays ready); "frzack_timeout", the
\* freeze acknowledge stays set after the exit request; "notrdy_timeout",
\* the not-ready flag stays set.
PollOutcomes == {"ok", "no_freeze", "frzack_timeout", "notrdy_timeout"}

\* The two polls after the freeze exit request.
reconfigure_Polls(outcome) ==
    LET s1 == flagPollTimeout_Clear(outcome # "frzack_timeout")
    IN  IF isSuccess(s1) THEN flagPollTimeout_Clear(outcome # "notrdy_timeout") ELSE s1

\* The registers an iteration of the instance loop writes when Status is a success.
reconfigure_Body(st, i, filter_config, outcome) ==
    [Status |-> reconfigure_Polls(outcome),
     MCR    |-> [st.MCR EXCEPT ![i] = (@ \cup {"HALT", "FRZ"}) \ {"HALT", "FRZ"}],
     RAMn   |-> [st.RAMn EXCEPT ![i] = SetupRAMn(filter_config)],
     RXIMR  |-> [st.RXIMR EXCEPT ![i] = SetupRXIMR(filter_config)]]

\* One iteration of the instance loop.
reconfigure_Instance(st, i, filter_config, outcome) ==
    IF isSuccess(st.Status)
    THEN reconfigure_Body(st, i, filter_config, outcome)
    ELSE [st EXCEPT !.MCR[i] = @ \cup {"HALT", "FRZ"}]

\* The instance loop from instance i on.
RECURSIVE reconfigure_Loop(_, _, _, _)
reconfigure_Loop(st, i, filter_config, outcomes) ==
    IF i >= CANFD_Count THEN st
    ELSE reconfigure_Loop(reconfigure_Instance(st, i, filter_config, outcomes[i]),
                          i + 1, filter_config, outcomes)

\* A reconfiguration that enters the instance loop whatever the validation said.
reconfigure_RunUnchecked(st, filter_config, outcomes) ==
    reconfigure_Loop(st, 0, filter_config, outcomes)

\* The whole call: nothing is done unless the validation succeeded.
reconfigure_Run(st, filter_config, outcomes) ==
    IF isSuccess(st.Status) THEN reconfigure_Loop(st, 0, filter_config, outcomes) ELSE st

reconfigureFilters(filter_config, outcomes) ==
    /\ pc = Idle
    /\ out_group
    /\ calls' = calls + 1
    /\ LET st0 == [Status |-> Filter_Validate(Len(filter_config)),
                   MCR |-> MCR, RAMn |-> RAMn, RXIMR |-> RXIMR]
           st == reconfigure_Run(st0, filter_config, outcomes)
       IN  /\ MCR' = st.MCR
           /\ RAMn' = st.RAMn
           /\ RXIMR' = st.RXIMR
           /\ ret' = Returned("reconfigureFilters", st.Status, 0)
    /\ UNCHANGED <<g_frame_ISRbuffer, g_discarded_frames_count, IFLAG1, IMASK1,
                   PCC_CGC, clock, out_group, pushed, returned, rxcount, wild, pc>>
    /\ UNCHANGED computations

(***************************************************************************)
(* S32K_InterfaceManager::startInterfaceGroup                              *)
(*                                                                         *)
(* The step is a call that returns: every flag the bring-up waits for      *)
(* (oscillator and PLL valid, timer counting, freeze acknowledge, module   *)
(* ready) is reached.                                                      *)
(***************************************************************************)
\* MCR of an instance at the end of its bring-up: enabled, CAN-FD and the
\* message buffer options selected, freeze mode left.
start_MCR(mcr) ==
    (((((mcr \cup {"MDIS"}) \ {"MDIS"}) \cup {"HALT", "FRZ"})
        \cup {"FDEN", "FRZ"}) \cup {"SRXDIS", "IRMQ"}) \ {"HALT", "FRZ"}

\* The handle startInterfaceGroup leaves in out_group (TRUE: the group object).
start_OutGroup(Status) == TRUE

startInterfaceGroup(filter_config) ==
    /\ pc = Idle
    /\ calls' = calls + 1
    /\ clock' = [spll |-> TRUE, lpit |-> TRUE]
    /\ PCC_CGC' = [i \in Instances |-> TRUE]
    /\ MCR' = [i \in Instances |-> start_MCR(MCR[i])]
    /\ RAMn' = [i \in Instances |-> SetupRAMn(filter_config)]
    /\ RXIMR' = [i \in Instances |-> SetupRXIMR(filter_config)]
    /\ IMASK1' = [i \in Instances |-> RxMessageBuffers]
    /\ LET Status == Filter_Validate(Len(filter_config))
       IN  /\ out_group' = start_OutGroup(Status)
           /\ ret' = Returned("startInterfaceGroup", Status, 0)
    /\ UNCHANGED <<g_frame_ISRbuffer, g_discarded_frames_count, IFLAG1, pushed,
                   returned, rxcount, wild, pc>>
    /\ UNCHANGED computations

(***************************************************************************)
(* S32K_InterfaceManager::stopInterfaceGroup                               *)
(***************************************************************************)
\* One iteration of the instance loop; lpmack: the low power acknowledge is
\* raised before the poll's deadline.
stop_Instance(st, i, lpmack) ==
    LET s1 == IF isSuccess(st.Status) THEN flagPollTimeout_Set(lpmack) ELSE st.Status
    IN  [Status  |-> s1,
         MCR     |-> [st.MCR EXCEPT ![i] = @ \cup {"MDIS"}],
         PCC_CGC |-> IF isSuccess(st.Status) /\ isSuccess(s1)
                     THEN [st.PCC_CGC EXCEPT ![i] = FALSE] ELSE st.PCC_CGC]

RECURSIVE stop_Loop(_, _, _)
stop_Loop(st, i, lpmacks) ==
    IF i >= CANFD_Count THEN st
    ELSE stop_Loop(stop_Instance(st, i, lpmacks[i]), i + 1, lpmacks)

stopInterfaceGroup(lpmacks) ==
    /\ pc = Idle
    /\ out_group
    /\ calls' = calls + 1
    /\ LET st == stop_Loop([Status |-> "Success", MCR |-> MCR, PCC_CGC |-> PCC_CGC],
                           0, lpmacks)
       IN  /\ MCR' = st.MCR
           /\ PCC_CGC' = st.PCC_CGC
           /\ ret' = Returned("stopInterfaceGroup", st.Status, 0)
    /\ clock' = [clock EXCEPT !.lpit = FALSE]
    /\ out_group' = FALSE
    /\ UNCHANGED <<g_frame_ISRbuffer, g_discarded_frames_count, IFLAG1, IMASK1, RAMn,
                   RXIMR, pushed, returned, rxcount, wild, pc>>
    /\ UNCHANGED computations

(***************************************************************************)
(* The waits of startInterfaceGroup and stopInterfaceGroup that have no    *)
(* deadline: while (flag not at its target) {}.  When the hardware never   *)
(* brings the flag to its target the call spins there for ever; the step   *)
(* takes the call up to that wait and leaves the foreground in it.         *)
(***************************************************************************)
\* The waits of the clock bring-up, in program order: oscillator valid, PLL
\* valid, timestamp timer counting.
start_ClockWaits == {"SOSCVLD", "SPLLVLD", "LPIT_counting"}

\* The waits of the bring-up of one instance, in program order.
start_InstanceWaits == {"FRZACK_set", "FRZACK_clear", "NOTRDY_clear"}

StartWaits ==
    {[op |-> "startInterfaceGroup", wait |-> w, instance |-> 0] : w \in start_ClockWaits}
    \cup {[op |-> "startInterfaceGroup", wait |-> w, instance |-> i] :
             w \in start_InstanceWaits, i \in Instances}

\* Instances whose bring-up has written every register when the call spins in w.
start_Programmed(w) ==
    IF w.wait \in start_ClockWaits THEN {}
    ELSE IF w.wait = "FRZACK_set" THEN {i \in Instances : i < w.instance}
    ELSE {i \in Instances : i <= w.instance}

\* The instance that has only been enabled and asked to freeze.
start_Freezing(w) == IF w.wait = "FRZACK_set" THEN {w.instance} ELSE {}

startInterfaceGroup_Wait(filter_config, w) ==
    /\ pc = Idle
    /\ calls' = calls + 1
    /\ pc' = w
    /\ out_group' = FALSE
    /\ clock' = IF w.wait \in {"SOSCVLD", "SPLLVLD"} THEN clock
                ELSE [spll |-> TRUE, lpit |-> TRUE]
    /\ PCC_CGC' = [i \in Instances |->
                      IF i \in start_Programmed(w) \cup start_Freezing(w)
                      THEN TRUE ELSE PCC_CGC[i]]
    /\ MCR' = [i \in Instances |->
                  IF i \in start_Programmed(w) THEN start_MCR(MCR[i])
                  ELSE IF i \in start_Freezing(w)
                  THEN ((MCR[i] \cup {"MDIS"}) \ {"MDIS"}) \cup {"HALT", "FRZ"}
                  ELSE MCR[i]]
    /\ RAMn' = [i \in Instances |->
                   IF i \in start_Programmed(w) THEN SetupRAMn(filter_config) ELSE RAMn[i]]
    /\ RXIMR' = [i \in Instances |->
                    IF i \in start_Programmed(w) THEN SetupRXIMR(filter_config)
                    ELSE RXIMR[i]]
    /\ IMASK1' = [i \in Instances |->
                     IF i \in start_Programmed(w) THEN RxMessageBuffers ELSE IMASK1[i]]
    /\ UNCHANGED <<g_frame_ISRbuffer, g_discarded_frames_count, IFLAG1, ret, pushed,
                   returned, rxcount, wild>>
    /\ UNCHANGED computations

\* The wait of stopInterfaceGroup for the timer reset.
StopWait == [op |-> "stopInterfaceGroup", wait |-> "LPIT_reset", instance |-> 0]

stopInterfaceGroup_Wait(lpmacks) ==
    /\ pc = Idle
    /\ out_group
    /\ calls' = calls + 1
    /\ pc' = StopWait
    /\ LET st == stop_Loop([Status |-> "Success", MCR |-> MCR, PCC_CGC |-> PCC_CGC],
                           0, lpmacks)
       IN  /\ MCR' = st.MCR
           /\ PCC_CGC' = st.PCC_CGC
    /\ UNCHANGED <<g_frame_ISRbuffer, g_discarded_frames_count, IFLAG1, IMASK1, RAMn,
                   RXIMR, clock, out_group, ret, pushed, returned, rxcount, wild>>
    /\ UNCHANGED computations

(***************************************************************************)
(* read, statement by statement.  read does not mask interrupts, so the    *)
(* handler can run between empty(), front() and pop_front(), and in the    *)
(* middle of pop_front().  The handler itself runs with interrupts masked. *)
(***************************************************************************)
\* The foreground inside read of instance i: at "front", empty() has answered
\* false; at "pop_front", out_frames[0] holds the front element and pop_front
\* is under way; at "return", pop_front is done.
ReadAt(wait, i) == [op |-> "read", wait |-> wait, instance |-> i]

\* Validation and the empty() test; every path that does not reach front()
\* completes at once.
read_Empty(interface_index, wild_nonempty) ==
    IF interface_index \in 1 .. CANFD_Count
       /\ g_frame_ISRbuffer[interface_index - 1] # <<>>
    THEN /\ pc = Idle
         /\ out_group
         /\ calls' = calls + 1
         /\ pc' = ReadAt("front", interface_index - 1)
         /\ UNCHANGED <<g_frame_ISRbuffer, g_discarded_frames_count, IFLAG1, IMASK1,
                        RAMn, RXIMR, MCR, PCC_CGC, clock, out_group, ret, pushed,
                        returned, rxcount, wild>>
         /\ UNCHANGED computations
    ELSE read(interface_index, wild_nonempty)

\* out_frames[0] = g_frame_ISRbuffer[interface_index - 1].front()
read_CopyFront(i) ==
    /\ pc = ReadAt("front", i)
    /\ returned' = [returned EXCEPT ![i] = Append(@, read_Front(g_frame_ISRbuffer[i]))]
    /\ pc' = ReadAt("pop_front", i)
    /\ UNCHANGED <<g_frame_ISRbuffer, g_discarded_frames_count, IFLAG1, IMASK1, RAMn,
                   RXIMR, MCR, PCC_CGC, clock, out_group, ret, pushed, rxcount, calls,
                   wild>>
    /\ UNCHANGED computations

\* pop_front() runs to its end without the handler in between.
read_PopFrontDone(i) ==
    /\ pc = ReadAt("pop_front", i)
    /\ g_frame_ISRbuffer' = [g_frame_ISRbuffer EXCEPT ![i] = read_PopFront(@)]
    /\ pc' = ReadAt("return", i)
    /\ UNCHANGED <<g_discarded_frames_count, IFLAG1, IMASK1, RAMn, RXIMR, MCR, PCC_CGC,
                   clock, out_group, ret, pushed, returned, rxcount, calls, wild>>
    /\ UNCHANGED computations

\* out_frames_read = RxFramesLen; Status = Success; return.
read_Return(i) ==
    /\ pc = ReadAt("return", i)
    /\ ret' = Returned("read", "Success", RxFramesLen)
    /\ pc' = Idle
    /\ UNCHANGED <<g_frame_ISRbuffer, g_discarded_frames_count, IFLAG1, IMASK1, RAMn,
                   RXIMR, MCR, PCC_CGC, clock, out_group, pushed, returned, rxcount,
                   calls, wild>>
    /\ UNCHANGED computations

\* The handler's push_back runs on the same std::deque in the middle of the
\* foreground's pop_front: two unsynchronised modifications of one object,
\* whose result the language leaves undefined.  What the queue holds once
\* pop_front has resumed and finished: both took effect, the pushed frame is
\* missing, or the popped frame is still there.
RaceOutcomes == {"both", "push_lost", "pop_lost"}

Raced(queue, frame, outcome) ==
    IF outcome = "both" THEN Append(read_PopFront(queue), frame)
    ELSE IF outcome = "push_lost" THEN read_PopFront(queue)
    ELSE Append(queue, frame)

\* The handler queues a frame of instance i while read is inside pop_front.
ISR_Races(i) ==
    /\ pc = ReadAt("pop_front", i)
    /\ MB_index(IFLAG1[i]) # 0
    /\ UnderCapacity(Len(g_frame_ISRbuffer[i]))

S32K_libuavcan_ISR_handler_InPopFront(instance, outcome) ==
    /\ IFLAG1[instance] \cap IMASK1[instance] # {}
    /\ ISR_Races(instance)
    /\ LET mbi == MB_index(IFLAG1[instance])
           frame == FrameISR(RAMn[instance][mbi])
       IN  /\ g_frame_ISRbuffer' =
                 [g_frame_ISRbuffer EXCEPT ![instance] = Raced(@, frame, outcome)]
           /\ pushed' = [pushed EXCEPT ![instance] = Append(@, frame)]
           /\ IFLAG1' = [IFLAG1 EXCEPT ![instance] = IFLAG1_OrAssign(@, {mbi})]
    /\ pc' = ReadAt("return", instance)
    /\ UNCHANGED <<g_discarded_frames_count, IMASK1, RAMn, RXIMR, MCR, PCC_CGC, clock,
                   out_group, ret, returned, rxcount, calls, wild>>
    /\ UNCHANGED computations

(***************************************************************************)
(* The driver and its environment                                          *)
(***************************************************************************)
\* Length codes of the frames the bus delivers.
RxDLCs == {8}

\* Reception message buffers whose filters the bus traffic matches.
RxTraffic == {2}

\* Values of the frames_len argument of write.
FramesLenArgs == {TxFramesLen, TxFramesLen + 1}

\* The bus: a frame arrives at a message buffer whose filter it matches.
Bus == \E i \in Instances, m \in RxTraffic, dlc \in RxDLCs : BusReceive(i, m, dlc)

\* The reception interrupt of an instance.
Interrupt == \E i \in Instances : S32K_libuavcan_ISR_handler(i)

Call_write ==
    \E x \in IndexArgs, n \in FramesLenArgs, o \in OutArgs, rdy \in BOOLEAN,
       mb \in TxMessageBuffers, sent \in BOOLEAN : write(x, n, o, rdy, mb, sent)

Call_read == \E x \in IndexArgs, w \in BOOLEAN : read(x, w)

Call_reconfigureFilters ==
    \E f \in FilterConfigs, o \in [Instances -> PollOutcomes] : reconfigureFilters(f, o)

Call_startInterfaceGroup == \E f \in FilterConfigs : startInterfaceGroup(f)

Call_stopInterfaceGroup == \E l \in [Instances -> BOOLEAN] : stopInterfaceGroup(l)

\* Every operation of the driver, with light bus traffic.
Next ==
    \/ rxcount < MaxRxSpec /\ Bus
    \/ Interrupt
    \/ calls < MaxCalls /\ Call_write
    \/ calls < MaxCalls /\ Call_read
    \/ calls < MaxCalls /\ Call_reconfigureFilters
    \/ calls < MaxCalls /\ Call_startInterfaceGroup
    \/ calls < MaxCalls /\ Call_stopInterfaceGroup

Spec == Init /\ [][Next]_vars

\* The reception path: bus traffic beyond the queue capacity, the handler,
\* read, and the group's lifecycle.
NextRx ==
    \/ rxcount < MaxRx /\ Bus
    \/ Interrupt
    \/ calls < MaxCallsRx /\ Call_read
    \/ calls < MaxCallsRx /\ Call_startInterfaceGroup
    \/ calls < MaxCallsRx /\ Call_stopInterfaceGroup

SpecRx == Init /\ [][NextRx]_vars

Call_startInterfaceGroup_Wait ==
    \E f \in FilterConfigs, w \in StartWaits : startInterfaceGroup_Wait(f, w)

Call_stopInterfaceGroup_Wait ==
    \E l \in [Instances -> BOOLEAN] : stopInterfaceGroup_Wait(l)

\* The lifecycle of the group on hardware that may never bring an awaited
\* flag to its target.
NextLife ==
    \/ rxcount < MaxRxLife /\ Bus
    \/ Interrupt
    \/ calls < MaxCallsLife /\ Call_startInterfaceGroup
    \/ calls < MaxCallsLife /\ Call_startInterfaceGroup_Wait
    \/ calls < MaxCallsLife /\ Call_stopInterfaceGroup
    \/ calls < MaxCallsLife /\ Call_stopInterfaceGroup_Wait

SpecLife == Init /\ [][NextLife]_vars

\* Timeouts a caller passes to select, in microseconds.
SelectTimeouts == 0 .. MaxTimeout

Call_select ==
    \E t \in SelectTimeouts, ig \in BOOLEAN, rdy \in [Instances -> BOOLEAN] :
        select(t, ig, rdy)

\* The readiness wait next to reception and read.
NextSel ==
    \/ rxcount < MaxRxSel /\ Bus
    \/ Interrupt
    \/ calls < MaxCallsSel /\ Call_startInterfaceGroup
    \/ calls < MaxCallsSel /\ Call_read
    \/ calls < MaxCallsSel /\ Call_select

SpecSel == Init /\ [][NextSel]_vars

\* Reception message buffers matched by the traffic of SpecIsr: two filters.
RxTrafficIsr == {2, 3}

BusIsr == \E i \in Instances, m \in RxTrafficIsr, dlc \in RxDLCs : BusReceive(i, m, dlc)

\* The handler under traffic that matches two filters.
NextIsr ==
    \/ rxcount < MaxRxIsr /\ BusIsr
    \/ Interrupt
    \/ calls < MaxCallsIsr /\ Call_startInterfaceGroup
    \/ calls < MaxCallsIsr /\ Call_read

SpecIsr == Init /\ [][NextIsr]_vars

\* A write on hardware whose ESR2 follows the message buffers; vps: ESR2.VPS.
\* An index that selects no instance reads an ESR2 that is not there.
Call_write_ESR2 ==
    \E x \in IndexArgs, n \in FramesLenArgs, o \in OutArgs, vps \in BOOLEAN,
       sent \in BOOLEAN :
        IF x - 1 \in Instances
        THEN write(x, n, o, vps /\ ESR2_IMB(x - 1), ESR2_LPTM(x - 1), sent)
        ELSE \E mb \in TxMessageBuffers : write(x, n, o, vps, mb, sent)

\* Transmission next to reception, the free message buffer picked by the
\* hardware.
NextTx ==
    \/ rxcount < MaxRxTx /\ Bus
    \/ Interrupt
    \/ calls < MaxCallsTx /\ Call_startInterfaceGroup
    \/ calls < MaxCallsTx /\ Call_write_ESR2

SpecTx == Init /\ [][NextTx]_vars

\* The reception interrupt while read may be in progress.
Interrupt_InRead ==
    \E i \in Instances :
        IF ISR_Races(i)
        THEN \E o \in RaceOutcomes : S32K_libuavcan_ISR_handler_InPopFront(i, o)
        ELSE S32K_libuavcan_ISR_handler(i)

Call_read_Empty == \E x \in IndexArgs, w \in BOOLEAN : read_Empty(x, w)

Step_read == \E i \in Instances : read_CopyFront(i) \/ read_PopFrontDone(i) \/ read_Return(i)

\* Reception while the foreground reads, with the handler preempting read.
NextPreempt ==
    \/ rxcount < MaxRxPreempt /\ Bus
    \/ Interrupt_InRead
    \/ calls < MaxCallsPreempt /\ Call_startInterfaceGroup
    \/ calls < MaxCallsPreempt /\ Call_read_Empty
    \/ Step_read

SpecPreempt == Init /\ [][NextPreempt]_vars

(***************************************************************************)
(* A frame through the word layout: written by messageBuffer_Transmit,     *)
(* read back by the handler.                                               *)
(***************************************************************************)
\* Extended ids, length codes and contents of frame.data of the frames sent.
CodecIds == {0, 5, 536870911}
CodecDLCs == 0 .. 15
CodecData == {[k \in 1 .. MaxFrameSizeBytes |-> (p * k) % 256] : p \in {1, 7, 85}}

CodecFrames ==
    {[id |-> id, dlc |-> dlc, data |-> data] :
        id \in CodecIds, dlc \in CodecDLCs, data \in CodecData}

Init_Codec ==
    /\ Init_Driver
    /\ stamp = NoStamp
    /\ poll = NoPoll
    /\ \E frame \in CodecFrames :
          codec = [step |-> "frame", frame |-> frame, mailbox |-> <<>>,
                   accesses |-> <<>>, data_ISR_word |-> <<>>, FrameISR |-> <<>>]

\* messageBuffer_Transmit fills the message buffer.
Codec_Transmit ==
    /\ codec.step = "frame"
    /\ codec' = [codec EXCEPT !.step = "mailbox",
                              !.mailbox = Transmit_Layout(codec.frame),
                              !.accesses = Transmit_Accesses(codec.frame)]
    /\ UNCHANGED <<driver, stamp, poll>>

\* The handler harvests the message buffer and builds the frame.
Codec_Receive ==
    /\ codec.step = "mailbox"
    /\ codec' = [codec EXCEPT !.step = "received",
                              !.data_ISR_word = ISR_Harvest(codec.mailbox),
                              !.FrameISR = ISR_Frame(codec.mailbox)]
    /\ UNCHANGED <<driver, stamp, poll>>

NextCodec ==
    \/ Codec_Transmit
    \/ Codec_Receive

SpecCodec == Init_Codec /\ [][NextCodec]_vars

(***************************************************************************)
(* A reception timestamp through resolve_Timestamp.                        *)
(***************************************************************************)
\* Values of the 16-bit counters (FlexCAN TIMER, the captured timestamp) and
\* of the two halves of the software clock (LPIT channels 0 and 1).
StampCounters == {0, 100, Digit - 1}
StampCVAL0 == {<<Digit - 1, Digit - 1>>, <<Digit - 51, Digit - 1>>, <<12345, 54321>>, <<0, 0>>}
StampCVAL1 == {<<Digit - 1, Digit - 1>>, <<Digit - 2, Digit - 1>>, <<0, 0>>}

Init_Stamp ==
    /\ Init_Driver
    /\ codec = NoCodec
    /\ poll = NoPoll
    /\ \E t \in StampCounters, f \in StampCounters, c1 \in StampCVAL1, c0 \in StampCVAL0 :
          stamp = [step |-> "captured", TIMER |-> t, frame_timestamp |-> f,
                   CVAL1 |-> c1, CVAL0 |-> c0, resolved_timestamp_ISR |-> <<>>]

Stamp_Resolve ==
    /\ stamp.step = "captured"
    /\ stamp' = [stamp EXCEPT
                    !.step = "resolved",
                    !.resolved_timestamp_ISR =
                        resolve_Timestamp(stamp.frame_timestamp, stamp.TIMER,
                                          stamp.CVAL1, stamp.CVAL0)]
    /\ UNCHANGED <<driver, codec, poll>>

NextStamp == Stamp_Resolve

SpecStamp == Init_Stamp /\ [][NextStamp]_vars

(***************************************************************************)
(* flagPollTimeout_Set and flagPollTimeout_Clear, pass by pass, next to    *)
(* the hardware: the polled register changes and LPIT channel 2 counts.    *)
(* The channel is loaded with 0xFFFFFFFF and counts down; elapsed is       *)
(* 0xFFFFFFFF - CVAL, the ticks counted since the load.                    *)
(***************************************************************************)
\* The bits of a polled register: the one under flag_Mask and another one.
PollBits == {"flag", "other"}
flag_Mask == {"flag"}

\* Readings of the elapsed ticks around cycles_timeout.
LPIT_Readings == {4194304, 8388608, S32K_cycles_timeout - 1, S32K_cycles_timeout,
                  S32K_cycles_timeout + 1, 20971520}

\* The loop goes on.
flagPoll_ContinueAlways(delta) == TRUE

\* while (delta < cycles_timeout)
flagPoll_Continue(delta) == delta < S32K_cycles_timeout

\* if (flagRegister & flag_Mask), if (!(flagRegister & flag_Mask))
flagPoll_Reached(target, flagRegister) ==
    IF target = "set" THEN flagRegister \cap flag_Mask # {}
    ELSE flagRegister \cap flag_Mask = {}

Init_Poll ==
    /\ Init_Driver
    /\ codec = NoCodec
    /\ stamp = NoStamp
    /\ \E target \in {"set", "clear"}, reg \in SUBSET PollBits :
          poll = [step |-> "loop", target |-> target, flagRegister |-> reg,
                  elapsed |-> 0, delta |-> 0, sampled |-> FALSE, Status |-> "none"]

\* One evaluation of the loop condition and, when it holds, of the body.
flagPollTimeout_Pass ==
    /\ poll.step = "loop"
    /\ poll' = IF flagPoll_Continue(poll.delta)
               THEN IF flagPoll_Reached(poll.target, poll.flagRegister)
                    THEN [poll EXCEPT !.step = "returned", !.sampled = TRUE,
                                      !.Status = "Success"]
                    ELSE [poll EXCEPT !.sampled = TRUE, !.delta = poll.elapsed]
               ELSE [poll EXCEPT !.step = "returned", !.Status = "Failure"]
    /\ UNCHANGED <<driver, codec, stamp>>

\* The timer channel counts on.
LPIT_Count ==
    /\ poll.step = "loop"
    /\ \E r \in LPIT_Readings :
          /\ r > poll.elapsed
          /\ poll' = [poll EXCEPT !.elapsed = r]
    /\ UNCHANGED <<driver, codec, stamp>>

\* The hardware changes the polled register.
Flag_Change ==
    /\ poll.step = "loop"
    /\ \E reg \in SUBSET PollBits : poll' = [poll EXCEPT !.flagRegister = reg]
    /\ UNCHANGED <<driver, codec, stamp>>

NextPoll ==
    \/ flagPollTimeout_Pass
    \/ LPIT_Count
    \/ Flag_Change

\* The loop keeps running and the timer keeps counting.
SpecPoll ==
    /\ Init_Poll
    /\ [][NextPoll]_vars
    /\ WF_vars(flagPollTimeout_Pass)
    /\ WF_vars(LPIT_Count)

(***************************************************************************)
(* The timed block of select, pass by pass, with LPIT channel 3 counting   *)
(* and no instance ready.                                                  *)
(***************************************************************************)
\* Timeouts a caller waits for, in microseconds.
SelectWaits == {0, 4194304, 8388608}

Init_Wait ==
    /\ Init_Driver
    /\ codec = NoCodec
    /\ stamp = NoStamp
    /\ \E timeout \in SelectWaits, ignore_write_available \in BOOLEAN :
          poll = [step |-> "loop", timeout |-> timeout,
                  ignore_write_available |-> ignore_write_available,
                  elapsed |-> 0, delta |-> 0, Status |-> "none"]

\* One evaluation of the loop condition and, when it holds, of the body;
\* ESR2 shows no free transmit message buffer.
select_Pass ==
    /\ poll.step = "loop"
    /\ poll' = IF poll.delta < poll.timeout
               THEN IF select_Poll(poll.ignore_write_available,
                                   [i \in Instances |-> FALSE])
                    THEN [poll EXCEPT !.step = "returned", !.Status = "Success"]
                    ELSE [poll EXCEPT !.delta = poll.elapsed]
               ELSE [poll EXCEPT !.step = "returned", !.Status = "SuccessTimeout"]
    /\ UNCHANGED <<driver, codec, stamp>>

NextWait ==
    \/ select_Pass
    \/ LPIT_Count

SpecWait == Init_Wait /\ [][NextWait]_vars

(***************************************************************************)
(* Properties                                                              *)
(***************************************************************************)
ValidIndexArgs == 1 .. CANFD_Count

\* C1: in every reachable state the length of each instance's reception
\* queue is at most Frame_Capacity.
C1_QueueWithinCapacity ==
    \A i \in Instances : Len(g_frame_ISRbuffer[i]) <= Frame_Capacity

\* C2: when the handler services a reception message buffer of instance i
\* while the queue of i holds exactly Frame_Capacity frames, the queue is left
\* unchanged and the discard counter of i grows by exactly one.
C2_FullQueueDiscards ==
    [][\A i \in Instances :
          (/\ S32K_libuavcan_ISR_handler(i)
           /\ MB_index(IFLAG1[i]) # 0
           /\ Len(g_frame_ISRbuffer[i]) = Frame_Capacity)
          => (/\ g_frame_ISRbuffer'[i] = g_frame_ISRbuffer[i]
              /\ g_discarded_frames_count'[i] = g_discarded_frames_count[i] + 1)]_vars

\* C3: a read of an existing instance whose queue is empty returns
\* SuccessNothing with zero frames and leaves every queue unchanged; on a
\* non-empty queue it returns Success with exactly one frame, the head, and
\* removes exactly the head; and the frames handed out so far followed by the
\* frames still queued are the frames pushed, in push order.
C3_ReadFifo ==
    [][/\ \A i \in Instances : pushed'[i] = returned'[i] \o g_frame_ISRbuffer'[i]
       /\ \A x \in ValidIndexArgs, w \in BOOLEAN :
             read(x, w) =>
               IF g_frame_ISRbuffer[x - 1] = <<>>
               THEN /\ ret'.status = "SuccessNothing"
                    /\ ret'.out = 0
                    /\ UNCHANGED <<g_frame_ISRbuffer, returned>>
               ELSE /\ ret'.status = "Success"
                    /\ ret'.out = 1
                    /\ g_frame_ISRbuffer' =
                          [g_frame_ISRbuffer EXCEPT ![x - 1] = Tail(@)]
                    /\ returned' =
                          [returned EXCEPT
                              ![x - 1] = Append(@, Head(g_frame_ISRbuffer[x - 1]))]]_vars

\* C3 witness: two different frames were pushed to an instance and read
\* handed both out, the last call being a read that returned Success.
C3_Witness ==
    /\ ret.op = "read"
    /\ ret.status = "Success"
    /\ \E i \in Instances :
          /\ Len(returned[i]) >= 2
          /\ returned[i][1] # returned[i][2]
          /\ returned[i] = SubSeq(pushed[i], 1, Len(returned[i]))

\* C4: a discard counter never decreases, and every counter is zero right
\* after a successful startInterfaceGroup of a group that is not live,
\* whatever was discarded in an earlier start/stop epoch.
C4_DiscardCounter ==
    [][/\ \A i \in Instances :
             g_discarded_frames_count'[i] >= g_discarded_frames_count[i]
       /\ \A f \in FilterConfigs :
             (startInterfaceGroup(f) /\ ~out_group /\ ret'.status = "Success")
             => \A i \in Instances : g_discarded_frames_count'[i] = 0]_vars

\* C5: a write with valid arguments while the hardware is not ready returns
\* BufferFull, leaves 0 in out_frames_written whatever it held before, and
\* changes no message buffer and no interrupt flag.
C5_WriteNotReady ==
    [][\A x \in ValidIndexArgs, o \in OutArgs, mb \in TxMessageBuffers, sent \in BOOLEAN :
          write(x, TxFramesLen, o, FALSE, mb, sent)
          => (/\ ret'.status = "BufferFull"
              /\ ret'.out = 0
              /\ UNCHANGED <<RAMn, IFLAG1>>)]_vars

\* C6: a write with a frame count above TxFramesLen or with an interface
\* index out of bounds returns BadArgument and reaches no hardware register,
\* whatever the readiness flags show.
C6_WriteBadArgument ==
    [][\A x \in IndexArgs, n \in FramesLenArgs, o \in OutArgs, rdy \in BOOLEAN,
          mb \in TxMessageBuffers, sent \in BOOLEAN :
          ((n > TxFramesLen \/ x \notin ValidIndexArgs) /\ write(x, n, o, rdy, mb, sent))
          => (/\ ret'.status = "BadArgument"
              /\ UNCHANGED hardware
              /\ UNCHANGED wild)]_vars

\* C7: no value of the interface index makes read or write reach a queue or
\* a register block outside the configured instances.
C7_IndexWithinInstances == ~wild

\* C8: reconfigureFilters with more filters than Filter_Count returns
\* BadArgument and leaves every hardware register of every instance unchanged.
C8_ReconfigureBadArgument ==
    [][(ret'.op = "reconfigureFilters" /\ calls' = calls + 1)
       => \A f \in FilterConfigs, o \in [Instances -> PollOutcomes] :
          (Len(f) > Filter_Count /\ reconfigureFilters(f, o))
          => (ret'.status = "BadArgument" /\ UNCHANGED hardware)]_vars

\* C8 witness: reconfigureFilters has rejected a filter list while reception
\* message buffers programmed earlier are in place.
C8_Witness ==
    /\ ret.op = "reconfigureFilters"
    /\ ret.status = "BadArgument"
    /\ \E i \in Instances : RAMn[i][2].code = CODE_RX_EMPTY

\* The outcomes in which a poll of the freeze exit times out, and the first
\* instance with such an outcome, CANFD_Count if there is none.
ExitTimeouts == {"frzack_timeout", "notrdy_timeout"}

FirstTimeout(outcomes) ==
    IF \E i \in Instances : outcomes[i] \in ExitTimeouts
    THEN CHOOSE i \in Instances :
            /\ outcomes[i] \in ExitTimeouts
            /\ \A k \in Instances : k < i => outcomes[k] \notin ExitTimeouts
    ELSE CANFD_Count

\* C9: in reconfigureFilters a poll timeout on instance i makes the call
\* return Failure and leaves the control register, the message buffers and
\* the masks of every instance after i as they were.
C9_ReconfigureAbortsOnTimeout ==
    [][\A f \in FilterConfigs, o \in [Instances -> PollOutcomes] :
          (/\ Len(f) <= Filter_Count
           /\ FirstTimeout(o) < CANFD_Count
           /\ reconfigureFilters(f, o))
          => (/\ ret'.status = "Failure"
              /\ \A k \in Instances :
                    k > FirstTimeout(o)
                    => (MCR'[k] = MCR[k] /\ RAMn'[k] = RAMn[k] /\ RXIMR'[k] = RXIMR[k]))]_vars

\* C10: startInterfaceGroup with more filters than Filter_Count returns
\* BadArgument, touches no hardware register and leaves out_group null; and
\* out_group is non-null after a start only when the result is Success.
C10_StartBadArgument ==
    [][\A f \in FilterConfigs :
          startInterfaceGroup(f)
          => (/\ Len(f) > Filter_Count
                 => (ret'.status = "BadArgument" /\ UNCHANGED hardware /\ ~out_group')
              /\ out_group' => ret'.status = "Success")]_vars

\* C11: startInterfaceGroup and stopInterfaceGroup always return: no call is
\* left spinning in a wait for a flag that never reaches its target (the
\* call gives up at the timer's deadline and returns Failure).
C11_CallsReturn == pc = Idle

\* C12: a startInterfaceGroup issued while the group started earlier is
\* still live returns a non-success result and no handle, and leaves the
\* queues, the discard counters and every hardware register unchanged.
C12_SecondStartFails ==
    [][\A f \in FilterConfigs :
          (out_group /\ startInterfaceGroup(f))
          => (/\ ~isSuccess(ret'.status)
              /\ UNCHANGED <<g_frame_ISRbuffer, g_discarded_frames_count>>
              /\ UNCHANGED hardware)]_vars

\* C13: select with a timeout above 0 returns Success when some instance has
\* a frame queued or (write availability not ignored) is ready to transmit,
\* and SuccessTimeout otherwise; with timeout 0 it returns SuccessTimeout
\* when nothing is ready and Success when a queue is not empty.
C13_SelectResult ==
    [][\A t \in SelectTimeouts, ig \in BOOLEAN, rdy \in [Instances -> BOOLEAN] :
          select(t, ig, rdy)
          => LET queued == \E i \in Instances : g_frame_ISRbuffer[i] # <<>>
                 ready == \E i \in Instances : ~ig /\ rdy[i]
             IN  /\ (t > 0 /\ (queued \/ ready)) => ret'.status = "Success"
                 /\ (t = 0 /\ queued) => ret'.status = "Success"
                 /\ ~(queued \/ ready) => ret'.status = "SuccessTimeout"]_vars

C15_CodecRoundTrip ==
    LET len == dlcToLength(codec.frame.dlc)
    IN  /\ codec.step \in {"mailbox", "received"}
           => codec.mailbox.written = (len + 3) \div 4
        /\ codec.step = "received"
           => (/\ Len(codec.data_ISR_word) = (len + 3) \div 4
               /\ codec.FrameISR.id = codec.frame.id
               /\ dlcToLength(codec.FrameISR.dlc) = len
               /\ Payload(codec.FrameISR) = SubSeq(codec.frame.data, 1, len))

\* C15 witness: a 7-byte frame (a partial last word) with the largest id has
\* gone through the message buffer and come back.
C15_Witness ==
    /\ codec.step = "received"
    /\ codec.frame.dlc = 7
    /\ codec.frame.id = 536870911
    /\ codec.mailbox.written = 2
    /\ Payload(codec.FrameISR) = <<7, 14, 21, 28, 35, 42, 49>>

\* q * n + c as five 16-bit digits (the fifth is what does not fit in 64 bits).
MulAdd64(q, n, c) ==
    LET p1 == q[1] * n + c
        p2 == q[2] * n + (p1 \div Digit)
        p3 == q[3] * n + (p2 \div Digit)
        p4 == q[4] * n + (p3 \div Digit)
    IN  <<p1 % Digit, p2 % Digit, p3 % Digit, p4 % Digit, p4 \div Digit>>

\* C16: resolve_Timestamp returns (T - |TIMER - frame_timestamp|) / 80 in
\* 64-bit unsigned arithmetic, T being the software clock reading with the
\* inverted channel 1 as high half and the inverted channel 0 as low half:
\* 80 * result + remainder + delta is T (T + 2^64 when delta exceeds T, where
\* the subtraction wraps); and with TIMER = frame_timestamp the result is
\* exactly T / 80.
C16_ResolveTimestamp ==
    stamp.step = "resolved"
    => LET T == <<65535 - stamp.CVAL0[1], 65535 - stamp.CVAL0[2],
                  65535 - stamp.CVAL1[1], 65535 - stamp.CVAL1[2]>>
           delta == IF stamp.TIMER >= stamp.frame_timestamp
                    THEN stamp.TIMER - stamp.frame_timestamp
                    ELSE stamp.frame_timestamp - stamp.TIMER
           wraps == T[4] = 0 /\ T[3] = 0 /\ T[2] = 0 /\ T[1] < delta
           result == stamp.resolved_timestamp_ISR
       IN  /\ \E r \in 0 .. 79 :
                 MulAdd64(result, 80, r + delta) = T \o <<IF wraps THEN 1 ELSE 0>>
           /\ delta = 0 => \E r \in 0 .. 79 : MulAdd64(result, 80, r) = T \o <<0>>

\* C16 witness: a timestamp was resolved whose capture lies 100 ticks behind
\* the counter, with both halves of the software clock in use.
C16_Witness ==
    /\ stamp.step = "resolved"
    /\ stamp.TIMER = 100
    /\ stamp.frame_timestamp = 0
    /\ stamp.CVAL1 = <<Digit - 2, Digit - 1>>
    /\ stamp.CVAL0 = <<12345, 54321>>
    /\ stamp.resolved_timestamp_ISR # <<0, 0, 0, 0>>

\* C17: in reconfigureFilters no message buffer and no reception mask of an
\* instance is written unless the instance has acknowledged the freeze
\* request: when instance i never acknowledges it (and the instances before
\* i behaved), the call returns Failure and the message buffers and masks of
\* i are as they were.
C17_FreezeBeforeProgramming ==
    [][\A f \in FilterConfigs, o \in [Instances -> PollOutcomes] :
          (/\ Len(f) <= Filter_Count
           /\ \E i \in Instances : o[i] = "no_freeze"
           /\ reconfigureFilters(f, o))
          => \A i \in Instances :
                (o[i] = "no_freeze" /\ \A k \in Instances : k < i => o[k] = "ok")
                => (/\ ret'.status = "Failure"
                    /\ RAMn'[i] = RAMn[i]
                    /\ RXIMR'[i] = RXIMR[i])]_vars

\* C18: after reconfigureFilters returns Success for F <= Filter_Count
\* filters, in every instance mask register j + 2 holds the mask of filter j
\* and message buffer j + 2 holds the empty-reception control word and the id
\* of filter j, for each j < F; every other message buffer and mask register
\* is zero; the halt and freeze requests are clear and both exit polls have
\* seen their flag clear.
C18_ReconfigureSuccess ==
    [][(ret'.op = "reconfigureFilters" /\ ret'.status = "Success" /\ calls' = calls + 1)
       => \A f \in FilterConfigs, o \in [Instances -> PollOutcomes] :
          (Len(f) <= Filter_Count /\ reconfigureFilters(f, o))
          => \A i \in Instances :
                /\ \A m \in MessageBuffers :
                      IF m >= 2 /\ m < 2 + Len(f)
                      THEN /\ RXIMR'[i][m] = f[m - 1].mask
                           /\ RAMn'[i][m].code = CODE_RX_EMPTY
                           /\ RAMn'[i][m].id = f[m - 1].id
                           /\ RAMn'[i][m].dlc = 0
                           /\ RAMn'[i][m].data = 0
                      ELSE RXIMR'[i][m] = 0 /\ RAMn'[i][m] = ZeroMB
                /\ "HALT" \notin MCR'[i]
                /\ "FRZ" \notin MCR'[i]
                /\ o[i] \notin ExitTimeouts]_vars

\* C18 witness: reconfigureFilters has returned Success and both instances
\* hold the two filters in message buffers 2 and 3, message buffer 4 zeroed.
C18_Witness ==
    /\ ret.op = "reconfigureFilters"
    /\ ret.status = "Success"
    /\ \A i \in Instances :
          /\ RAMn[i][3] = ReceptionMB(MkFilters(2, 1)[2])
          /\ RXIMR[i][3] = MkFilters(2, 1)[2].mask
          /\ RAMn[i][4] = ZeroMB
          /\ ~({"HALT", "FRZ"} \subseteq MCR[i])

\* An entry of the handler for instance i that services one pending
\* reception message buffer: its frame is queued or counted as discarded,
\* and its flag is cleared.
ISR_ServicesOne(i) ==
    /\ S32K_libuavcan_ISR_handler(i)
    /\ \/ /\ Len(g_frame_ISRbuffer'[i]) = Len(g_frame_ISRbuffer[i]) + 1
          /\ g_discarded_frames_count'[i] = g_discarded_frames_count[i]
       \/ /\ g_frame_ISRbuffer'[i] = g_frame_ISRbuffer[i]
          /\ g_discarded_frames_count'[i] = g_discarded_frames_count[i] + 1
    /\ \E m \in IFLAG1[i] \cap RxMessageBuffers : m \notin IFLAG1'[i]

\* C19: an entry of the handler with no reception flag pending selects no
\* message buffer, so it changes nothing; an entry with one or more
\* reception flags pending services exactly one pending message buffer and
\* clears that buffer's flag.
C19_OneServicedPerEntry ==
    \A i \in Instances :
        IF IFLAG1[i] \cap RxMessageBuffers = {}
        THEN MB_index(IFLAG1[i]) = 0
        ELSE (ENABLED S32K_libuavcan_ISR_handler(i)) => ENABLED ISR_ServicesOne(i)

\* The positions of an access in a sequence of accesses.
Positions(accesses, a) == {k \in DOMAIN accesses : accesses[k] = a}

\* C20: when the handler queues a frame it reads the control/status word of
\* the message buffer exactly once, reads the free-running timer after that
\* read, and clears the interrupt flag after the timer read; the timer
\* channels that resolve the time stamp are read after the control/status
\* word and before the flag is cleared.
C20_LockReadOnce ==
    [][\A i \in Instances :
          (/\ S32K_libuavcan_ISR_handler(i)
           /\ Len(g_frame_ISRbuffer'[i]) = Len(g_frame_ISRbuffer[i]) + 1)
          => LET a == ISR_Accesses(i)
                 lock == Positions(a, Access("read", "CS"))
                 unlock == Positions(a, Access("read", "TIMER"))
                 clear == Positions(a, Access("write", "IFLAG1"))
                 stamp_reads == Positions(a, Access("read", "LPIT_CVAL1"))
                                \cup Positions(a, Access("read", "LPIT_CVAL0"))
             IN  /\ Cardinality(lock) = 1
                 /\ \A l \in lock : \E u \in unlock : l < u /\ \E c \in clear : u < c
                 /\ stamp_reads # {}
                 /\ \A t \in stamp_reads :
                        (\E l \in lock : l < t) /\ (\A c \in clear : t < c)]_vars

\* C21: with the handler preempting read between and inside its steps, every
\* frame the handler queued is handed out by exactly one read, in arrival
\* order: whenever the foreground is outside a call, the frames handed out
\* followed by the frames still queued are the frames the handler queued.
C21_PreemptedReadFifo ==
    pc = Idle => \A i \in Instances : pushed[i] = returned[i] \o g_frame_ISRbuffer[i]

\* C22: the roles of the message buffers are fixed: in every reachable state
\* a transmit code (transmission requested, or sent) is only in message
\* buffer 0 or 1, the receive code is only in the message buffers 2 and up
\* that the filters occupy without a gap, and the handler selects no message
\* buffer outside 2..6.
C22_MailboxRoles ==
    \A i \in Instances :
        /\ \A m \in MessageBuffers :
              /\ RAMn[i][m].code \in {CODE_TX_DATA, CODE_TX_INACTIVE}
                    => m \in TxMessageBuffers
              /\ RAMn[i][m].code = CODE_RX_EMPTY
                    => /\ m \notin TxMessageBuffers
                       /\ \A k \in 2 .. m : RAMn[i][k].code = CODE_RX_EMPTY
        /\ MB_index(IFLAG1[i]) \in {0} \cup RxMessageBuffers

\* A pass of the timed poll returns Success exactly when it samples the flag
\* at its target with the elapsed ticks read so far below cycles_timeout,
\* returns Failure exactly when those ticks have reached cycles_timeout, and
\* leaves the polled register as it is.
Poll_PassResult ==
    flagPollTimeout_Pass
    => /\ poll'.Status = "Success"
             <=> (poll.delta < S32K_cycles_timeout
                  /\ flagPoll_Reached(poll.target, poll.flagRegister))
       /\ poll'.Status = "Failure" <=> poll.delta >= S32K_cycles_timeout
       /\ poll'.flagRegister = poll.flagRegister

\* C23: while its timer channel counts, the timed poll (for set and for
\* clear) returns; it returns Success if it sampled the flag at its target
\* before the elapsed ticks reached cycles_timeout and Failure otherwise; it
\* has sampled the flag at least once when it returns, also when the flag was
\* at its target at the call; and it never writes the polled register.
C23_TimedPoll ==
    /\ [][Poll_PassResult]_vars
    /\ [](poll.step = "returned" => poll.sampled)
    /\ [](poll.Status = "Failure" => poll.elapsed >= S32K_cycles_timeout)
    /\ <>(poll.step = "returned")

\* C23 witness: a poll for a set flag that was clear at the call has sampled
\* it and returned Success after the timer had counted.
C23_Witness ==
    /\ poll.step = "returned"
    /\ poll.target = "set"
    /\ poll.Status = "Success"
    /\ poll.delta > 0
    /\ poll.delta < S32K_cycles_timeout

\* C24: a select with a timeout of t microseconds and no instance ready does
\* not return SuccessTimeout before its timer has counted t times the ticks
\* per microsecond.
C24_SelectWaitsTimeout ==
    poll.Status = "SuccessTimeout" => poll.elapsed >= poll.timeout * TicksPerMicrosecond

\* The software clock reading resolve_Timestamp starts from: the inverted
\* channel 0 as low half, the inverted channel 1 as high half.
Stamp_T ==
    <<65535 - stamp.CVAL0[1], 65535 - stamp.CVAL0[2],
      65535 - stamp.CVAL1[1], 65535 - stamp.CVAL1[2]>>

\* The clock reading is below d, d below 65536.
Stamp_Below(T, d) == T[4] = 0 /\ T[3] = 0 /\ T[2] = 0 /\ T[1] < d

\* C25: for a capture made e ticks before the handler reads the 16-bit
\* counter (the counter is e ticks past the capture, modulo 65536, so also
\* when it wrapped in between) and a clock reading T of e or more,
\* resolve_Timestamp returns (T - e) / 80.
C25_BackDated ==
    stamp.step = "resolved"
    => LET e == (stamp.TIMER - stamp.frame_timestamp + Digit) % Digit
       IN  ~Stamp_Below(Stamp_T, e)
           => \E r \in 0 .. 79 :
                 MulAdd64(stamp.resolved_timestamp_ISR, 80, r + e) = Stamp_T \o <<0>>

\* a <= b for 64-bit values in 16-bit digits, lowest digit first.
Leq64(a, b) ==
    \/ a = b
    \/ \E k \in 1 .. 4 : a[k] < b[k] /\ \A j \in (k + 1) .. 4 : a[j] = b[j]

\* C29: the subtraction in resolve_Timestamp never underflows: for every
\* clock reading T and every pair of 16-bit counter values the timestamp
\* returned is at most T / 80.
C29_NoUnderflow ==
    stamp.step = "resolved"
    => Leq64(stamp.resolved_timestamp_ISR, Div64(Stamp_T, TicksPerMicrosecond))

\* C26: clearing one message buffer's flag, in write and in the handler,
\* leaves every other pending flag alone: a reception flag that is pending
\* before a write or a handler entry is pending afterwards too, unless the
\* handler serviced that very message buffer.
C26_ClearLeavesOthers ==
    [][((ret'.op = "write" /\ calls' = calls + 1) \/ IFLAG1' # IFLAG1)
       => \A i \in Instances, m \in RxMessageBuffers :
             ((\/ \E x \in IndexArgs, n \in FramesLenArgs, o \in OutArgs, rdy \in BOOLEAN,
                     mb \in TxMessageBuffers, sent \in BOOLEAN :
                       write(x, n, o, rdy, mb, sent)
               \/ S32K_libuavcan_ISR_handler(i))
              /\ m \in IFLAG1[i] /\ m \notin IFLAG1'[i])
             => (S32K_libuavcan_ISR_handler(i) /\ MB_index(IFLAG1[i]) = m)]_vars

\* The reception interrupts serviced for a valid message buffer of instance
\* i: every one of them either queued a frame or counted a discard.
Serviced(i) == Len(pushed[i]) + g_discarded_frames_count[i]

\* C27: received frames are conserved: whenever the foreground is outside a
\* call, the reception interrupts serviced for an instance are as many as the
\* frames read has handed out plus the frames queued plus the discard counter.
C27_Conservation ==
    pc = Idle
    => \A i \in Instances :
          Serviced(i) = Len(returned[i]) + Len(g_frame_ISRbuffer[i])
                           + g_discarded_frames_count[i]

\* C28: when messageBuffer_Transmit encodes a frame, the control/status word
\* with the transmit code is written once, after the id word and after every
\* payload word of the frame (as many as the message buffer then holds).
C28_CodeWrittenLast ==
    codec.step \in {"mailbox", "received"}
    => LET a == codec.accesses
           code == Positions(a, Access("write", "CS"))
           id == Positions(a, Access("write", "ID"))
           data == Positions(a, Access("write", "DATA"))
       IN  /\ Cardinality(code) = 1
           /\ Cardinality(id) = 1
           /\ Cardinality(data) = codec.mailbox.written
           /\ \A c \in code : \A w \in id \cup data : w < c

\* C28 witness: a 64-byte frame was encoded, all 16 payload words written.
C28_Witness ==
    /\ codec.step = "mailbox"
    /\ codec.frame.dlc = 15
    /\ codec.mailbox.written = 16
    /\ codec.mailbox.code = CODE_TX_DATA
    /\ codec.accesses[18] = Access("write", "CS")

=============================================================================
